---- MODULE Spec2Model ----
(***************************************************************************)
(* A model of src/main.py: the Flask service that downloads a video,       *)
(* replaces its audio by a fetched "trending" track and serves the files   *)
(* of the scratch directory TEMP_DIR.                                      *)
(*                                                                         *)
(* Every request is a slot of Reqs that runs one handler.  A handler is    *)
(* split into steps at the places where it touches the scratch directory   *)
(* or the network, because Flask may run handlers concurrently and the     *)
(* scratch directory is the only state they share.                         *)
(*                                                                         *)
(* Durations are whole numbers of some unit of time (floating point        *)
(* rounding is not modelled).  A path is <<prefix, timestamp, exts>>,      *)
(* exts being the sequence of extensions, so that appending ".mp4",        *)
(* endswith('.mp4') and replace('.mp4', '') are computed, not assumed.     *)
(***************************************************************************)
EXTENDS Integers, Sequences, FiniteSets, TLC

\* Bounds of the model.
MaxTime == 1      \* time.time() takes the values 0..MaxTime
MaxDur == 4       \* media durations are drawn from 1..MaxDur (and 47, 130)

Reqs == {"r1", "r2", "r3"}
Urls == {"u1"}
VideoIds == {"v1", "v2"}

VARIABLES
    clock,            \* int(time.time())
    fs,               \* the scratch directory TEMP_DIR: path -> content
    YOUTUBE_API_KEY,  \* line 11, read once at start
    scn,              \* the environment: what each slot may ask, what the
                      \* remote services may answer
    pc,               \* where each request's handler stands
    req,              \* the request: kind and JSON body
    loc,              \* the handler's local variables
    pv,               \* process_video's local variables
    dl,               \* download_youtube_video_via_api's local variables
    resp              \* the response returned by the handler

vars == <<clock, fs, YOUTUBE_API_KEY, scn, pc, req, loc, pv, dl, resp>>

---------------------------------------------------------------------------
(* Paths and the scratch directory *)

NoPath == <<"", 0, <<>>>>

\* an input path that does not carry the timestamp
InputPath_Fixed(ts) == <<"input", 0, <<"mp4">>>>

InputPath(ts) == <<"input", ts, <<"mp4">>>>

OutputPath(ts) == <<"output", ts, <<"mp4">>>>

SongBase(ts) == <<"song", ts, <<>>>>

VideoBase(ts) == <<"video", ts, <<>>>>

AppendExt(p, e) == <<p[1], p[2], Append(p[3], e)>>

EndsWith(p, e) == Len(p[3]) > 0 /\ p[3][Len(p[3])] = e

\* str.replace('.mp4', ''): every occurrence is removed
RECURSIVE DropExt(_, _)
DropExt(s, e) ==
    IF s = <<>> THEN <<>>
    ELSE IF Head(s) = e THEN DropExt(Tail(s), e)
    ELSE <<Head(s)>> \o DropExt(Tail(s), e)

ReplaceExt(p, e) == <<p[1], p[2], DropExt(p[3], e)>>

Exists(f, p) == p \in DOMAIN f

Write(f, p, c) == [q \in (DOMAIN f) \cup {p} |-> IF q = p THEN c ELSE f[q]]

Remove(f, p) == [q \in (DOMAIN f) \ {p} |-> f[q]]

NoContent ==
    [writer |-> "", kind |-> "", dur |-> 0, audio |-> "", adur |-> 0,
     complete |-> FALSE]

MediaFile(r, k, dur, audio, adur, complete) ==
    [writer |-> r, kind |-> k, dur |-> dur, audio |-> audio, adur |-> adur,
     complete |-> complete]

---------------------------------------------------------------------------
(* Values *)

DefaultSong == <<"watch", "dQw4w9WgXcQ">>

WatchUrl(id) == <<"watch", id>>

NoUrl == <<"", "">>

\* A reply of the ranking source to line 195:
\*   exc: requests.get raised; json: the body parses as JSON;
\*   dict: the JSON value is an object; hasItems: it has the key 'items';
\*   items: that list, each item with or without the key 'id'.
Item(hasId, id) == [hasId |-> hasId, id |-> id]

Reply(exc, json, dict, hasItems, items) ==
    [exc |-> exc, json |-> json, dict |-> dict, hasItems |-> hasItems,
     items |-> items]

NoReply == Reply(FALSE, FALSE, FALSE, FALSE, <<>>)

AllReplies ==
    { Reply(TRUE, FALSE, FALSE, FALSE, <<>>),
      Reply(FALSE, FALSE, FALSE, FALSE, <<>>),
      Reply(FALSE, TRUE, FALSE, FALSE, <<>>),
      Reply(FALSE, TRUE, TRUE, FALSE, <<>>),
      Reply(FALSE, TRUE, TRUE, TRUE, <<>>),
      Reply(FALSE, TRUE, TRUE, TRUE, <<Item(FALSE, "")>>) }
    \cup { Reply(FALSE, TRUE, TRUE, TRUE, <<Item(TRUE, v)>>) : v \in VideoIds }
    \cup { Reply(FALSE, TRUE, TRUE, TRUE, <<Item(TRUE, v), Item(FALSE, "")>>) :
             v \in VideoIds }

\* A request body as request.get_json() sees it:
\*   json: FALSE when get_json() raises (no JSON body);
\*   shape: "falsy" (null, {}, [], 0, ""), "object" (a non-empty object) or
\*          "other" (a non-empty array or string, a number, true);
\*   videoUrl: "missing", "" or a URL.
Body(json, shape, videoUrl) ==
    [json |-> json, shape |-> shape, videoUrl |-> videoUrl]

NoBody == Body(FALSE, "", "missing")

Bodies ==
    { Body(FALSE, "", "missing"),
      Body(TRUE, "falsy", "missing"),
      Body(TRUE, "other", "missing"),
      Body(TRUE, "object", "missing"),
      Body(TRUE, "object", "") }
    \cup { Body(TRUE, "object", u) : u \in Urls }

Response(status, error, success, filename, content) ==
    [status |-> status, error |-> error, success |-> success,
     filename |-> filename, content |-> content]

NoResponse == Response(0, FALSE, FALSE, NoPath, NoContent)

ErrorResponse(status) == Response(status, TRUE, FALSE, NoPath, NoContent)

Durations == (1 .. MaxDur) \cup {47, 130}

---------------------------------------------------------------------------
(* State after construction *)

NoLoc ==
    [has_ts |-> FALSE, timestamp |-> 0, input_path |-> NoPath,
     output_path |-> NoPath, downloaded_path |-> NoPath]

NoPv ==
    [D |-> 0, reply |-> NoReply, song_url |-> NoUrl, audio_file |-> NoPath,
     d |-> 0, loops |-> 0,
     track |-> [starts |-> <<>>, clip |-> 0, duration |-> 0,
                composite |-> FALSE],
     handles |-> {}, opened |-> {}, called |-> "", branch |-> "", ret |-> "",
     wrote |-> NoContent]

NoDl ==
    [api |-> "", download_url |-> "", fail |-> "", fallbacks |-> 0,
     fallback_ret |-> NoPath, api_ok |-> FALSE, returned |-> FALSE,
     ret |-> NoPath, wrote_plain |-> NoContent, wrote_mp4 |-> NoContent]

NoReq ==
    [kind |-> "", body |-> NoBody, name |-> NoPath, after |-> {},
     existed |-> FALSE]

\* Init of every specification: nothing has run, the scratch directory holds
\* nothing of this service.  kinds, durs, replies and keys are the
\* environment the specification runs the service in.
InitWith(kinds, durs, replies, keys) ==
    /\ clock = 0
    /\ fs = [q \in {} |-> NoContent]
    /\ YOUTUBE_API_KEY \in keys
    /\ scn = [kinds |-> kinds, durs |-> durs, replies |-> replies]
    /\ pc = [r \in Reqs |-> "idle"]
    /\ req = [r \in Reqs |-> NoReq]
    /\ loc = [r \in Reqs |-> NoLoc]
    /\ pv = [r \in Reqs |-> NoPv]
    /\ dl = [r \in Reqs |-> NoDl]
    /\ resp = [r \in Reqs |-> NoResponse]

\* time.time() advances between any two steps
Tick ==
    /\ clock < MaxTime
    /\ clock' = clock + 1
    /\ UNCHANGED <<fs, YOUTUBE_API_KEY, scn, pc, req, loc, pv, dl, resp>>

---------------------------------------------------------------------------
(* Request validation, common to /download and /process-video *)

\* 0: the body is accepted; otherwise the status of the early response.
\* get_json() raising and data.get on a non-object are caught by the
\* handler's "except Exception" and answered 500.
ValidateBody(body) ==
    IF ~body.json THEN 500
    ELSE IF body.shape = "falsy" THEN 400
    ELSE IF body.shape # "object" THEN 500
    ELSE IF body.videoUrl \in {"missing", ""} THEN 400
    ELSE 0

---------------------------------------------------------------------------
(* get_trending_song *)

Returned(url) == [raised |-> FALSE, url |-> url]

Raised == [raised |-> TRUE, url |-> NoUrl]

\* get_trending_song with data['items'][0]['id'] outside the try block
get_trending_song_Uncaught(key, reply) ==
    IF key = "" THEN Returned(DefaultSong)
    ELSE IF reply.exc \/ ~reply.json \/ ~reply.dict THEN Returned(DefaultSong)
    ELSE IF ~reply.hasItems \/ reply.items = <<>> THEN Returned(DefaultSong)
    ELSE IF ~reply.items[1].hasId THEN Raised
    ELSE Returned(WatchUrl(reply.items[1].id))

get_trending_song(key, reply) ==
    IF key = "" THEN Returned(DefaultSong)
    ELSE IF reply.exc THEN Returned(DefaultSong)
    ELSE IF ~reply.json THEN Returned(DefaultSong)
    ELSE IF ~reply.dict THEN Returned(DefaultSong)
    ELSE IF ~reply.hasItems \/ reply.items = <<>> THEN Returned(DefaultSong)
    ELSE IF ~reply.items[1].hasId THEN Returned(DefaultSong)
    ELSE Returned(WatchUrl(reply.items[1].id))

---------------------------------------------------------------------------
(* The audio track of process_video *)

AudioFileClip(d) ==
    [starts |-> <<0>>, clip |-> d, duration |-> d, composite |-> FALSE]

\* the gate of line 244 written with >=
NeedsLoop_Inclusive(D, d) == D >= d

NeedsLoop(D, d) == D > d

\* line 245 without its "+ 1"
LoopCount_NoExtra(D, d) == D \div d

LoopCount(D, d) == (D \div d) + 1

LoopStarts(d, loops) == [i \in 1 .. loops |-> (i - 1) * d]

SeqMax(s) == CHOOSE m \in {s[i] : i \in DOMAIN s} : \A i \in DOMAIN s : s[i] <= m

\* moviepy: a composite ends where its last clip ends
CompositeAudioClip(starts, d) ==
    [starts |-> starts, clip |-> d,
     duration |-> SeqMax([i \in DOMAIN starts |-> starts[i] + d]),
     composite |-> TRUE]

\* moviepy: subclip(t_start, t_end) sets the duration to t_end - t_start
subclip(track, t_start, t_end) ==
    [track EXCEPT !.duration = t_end - t_start]

\* lines 244-252
ReplacementTrack(D, d) ==
    LET new_audio == AudioFileClip(d)
        looped == IF NeedsLoop(D, d)
                  THEN CompositeAudioClip(LoopStarts(d, LoopCount(D, d)), d)
                  ELSE new_audio
    IN  subclip(looped, 0, D)

LoopsEvaluated(D, d) == IF NeedsLoop(D, d) THEN LoopCount(D, d) ELSE 0

\* close() of a clip, on the set of open readers.  moviepy: a file clip's
\* close ends its reader, which its copies (subclip, without_audio,
\* set_audio) share; a video clip's close also closes its audio; a
\* CompositeAudioClip inherits Clip.close, which releases nothing.
CloseAudio(h, track) == IF track.composite THEN h ELSE h \ {"audio"}

CloseVideo(h) == h \ {"video"}

\* lines 265-267
CloseAfterMux(h, track) ==
    CloseVideo(CloseAudio(CloseVideo(CloseAudio(h, track)), track))

---------------------------------------------------------------------------
(* process_video, lines 210-280, and its caller process_endpoint,          *)
(* lines 348-406                                                           *)

Others == <<clock, YOUTUBE_API_KEY, scn>>

\* lines 354-365: the body is read and checked, the timestamp taken.  An
\* early response leaves input_path None, so the finally clause does nothing.
process_endpoint_start(r) ==
    /\ pc[r] = "idle"
    /\ "process" \in scn.kinds[r]
    /\ \E body \in Bodies :
         /\ req' = [req EXCEPT ![r] = [@ EXCEPT !.kind = "process",
                                                !.body = body]]
         /\ IF ValidateBody(body) # 0
            THEN /\ resp' = [resp EXCEPT ![r] = ErrorResponse(ValidateBody(body))]
                 /\ pc' = [pc EXCEPT ![r] = "done"]
                 /\ loc' = loc
            ELSE /\ loc' = [loc EXCEPT ![r] =
                              [@ EXCEPT !.has_ts = TRUE,
                                        !.timestamp = clock,
                                        !.input_path = InputPath(clock)]]
                 /\ pc' = [pc EXCEPT ![r] = "pe_get"]
                 /\ resp' = resp
    /\ UNCHANGED <<fs, pv, dl, Others>>

\* lines 368-378: the input is streamed to input_path.  "raise": the GET or
\* raise_for_status raises; "partial": the stream breaks after the file
\* was opened; "ok": the whole file is written.
process_endpoint_fetch(r) ==
    /\ pc[r] = "pe_get"
    /\ \E out \in {"raise", "partial", "ok"}, dur \in scn.durs :
         /\ fs' = IF out = "raise" THEN fs
                  ELSE Write(fs, loc[r].input_path,
                             MediaFile(r, "video", dur, "orig", dur, out = "ok"))
         /\ IF out = "ok"
            THEN /\ loc' = [loc EXCEPT ![r] =
                              [@ EXCEPT !.output_path = OutputPath(loc[r].timestamp)]]
                 /\ pc' = [pc EXCEPT ![r] = "pv_open"]
                 /\ resp' = resp
            ELSE /\ resp' = [resp EXCEPT ![r] = ErrorResponse(500)]
                 /\ pc' = [pc EXCEPT ![r] = "pe_finally"]
                 /\ loc' = loc
    /\ UNCHANGED <<req, pv, dl, Others>>

\* The handle set after VideoFileClip(input_path) succeeded
OpenVideo(h) == h \cup {"video"}

\* lines 214-223: moviepy is imported and the source video opened.  A
\* missing or truncated file makes VideoFileClip raise (caught at 276).
process_video_open(r) ==
    /\ pc[r] = "pv_open"
    /\ \E imported \in BOOLEAN :
         LET p == loc[r].input_path
             readable == Exists(fs, p) /\ fs[p].complete IN
         IF ~imported
         THEN /\ pv' = [pv EXCEPT ![r] = [@ EXCEPT !.branch = "import",
                                                   !.ret = "False"]]
              /\ pc' = [pc EXCEPT ![r] = "pe_check"]
         ELSE IF ~readable
         THEN /\ pv' = [pv EXCEPT ![r] = [@ EXCEPT !.branch = "exc",
                                                   !.ret = "False"]]
              /\ pc' = [pc EXCEPT ![r] = "pe_check"]
         ELSE /\ pv' = [pv EXCEPT ![r] =
                          [@ EXCEPT !.handles = OpenVideo(@),
                                    !.opened = @ \cup {"video"},
                                    !.D = fs[p].dur]]
              /\ pc' = [pc EXCEPT ![r] = "pv_song"]
    /\ UNCHANGED <<fs, req, loc, dl, resp, Others>>

\* lines 142-173, download_youtube_audio: "raise": yt-dlp raises, None is
\* returned; "nofile": yt-dlp returns without having written path.mp3;
\* "ok": it wrote path.mp3.  Without an exception the result is path.mp3
\* when that file exists.
AudioResult(f, base, out) ==
    IF out # "raise" /\ Exists(f, AppendExt(base, "mp3"))
    THEN AppendExt(base, "mp3") ELSE NoPath

\* lines 225-227: the song is chosen and fetched
process_video_song(r) ==
    /\ pc[r] = "pv_song"
    /\ \E reply \in scn.replies, out \in {"raise", "nofile", "ok"},
          dur \in scn.durs :
         LET song == get_trending_song(YOUTUBE_API_KEY, reply)
             audio_base == SongBase(clock)
             fs1 == IF out = "ok" /\ ~song.raised
                    THEN Write(fs, AppendExt(audio_base, "mp3"),
                               MediaFile(r, "audio", dur, "song", dur, TRUE))
                    ELSE fs IN
         /\ fs' = fs1
         /\ IF song.raised
            THEN /\ pv' = [pv EXCEPT ![r] = [@ EXCEPT !.reply = reply,
                                                      !.called = "raised",
                                                      !.branch = "exc",
                                                      !.ret = "False"]]
                 /\ pc' = [pc EXCEPT ![r] = "pe_check"]
            ELSE /\ pv' = [pv EXCEPT ![r] =
                             [@ EXCEPT !.reply = reply,
                                       !.called = "returned",
                                       !.song_url = song.url,
                                       !.audio_file =
                                           AudioResult(fs1, audio_base, out)]]
                 /\ pc' = [pc EXCEPT ![r] = "pv_branch"]
    /\ UNCHANGED <<req, loc, dl, resp, Others>>

\* line 229
TakesSilentPath(audio_file) == audio_file = NoPath

\* the silent path without without_audio(): the original audio stays
SilentOutput_KeepsAudio(r, D, whole) == MediaFile(r, "video", D, "orig", D, whole)

\* What write_videofile puts at output_path on the silent path
SilentOutput(r, D, whole) == MediaFile(r, "video", D, "none", 0, whole)

\* lines 229-239, 272-274: the silent video.  "raise": write_videofile
\* raises before writing; "truncated": it raises mid-encode; "ok".
process_video_silent(r) ==
    /\ pc[r] = "pv_branch"
    /\ TakesSilentPath(pv[r].audio_file)
    /\ \E out \in {"raise", "truncated", "ok"} :
         /\ fs' = IF out = "raise" THEN fs
                  ELSE Write(fs, loc[r].output_path,
                             SilentOutput(r, pv[r].D, out = "ok"))
         /\ pv' = [pv EXCEPT ![r] =
                     IF out = "ok"
                     THEN [@ EXCEPT !.branch = "silent",
                                    !.wrote = SilentOutput(r, pv[r].D, TRUE),
                                    !.handles = CloseVideo(CloseVideo(@)),
                                    !.ret = "True"]
                     ELSE [@ EXCEPT !.branch = "exc", !.ret = "False"]]
         /\ pc' = [pc EXCEPT ![r] = "pe_check"]
    /\ UNCHANGED <<req, loc, dl, resp, Others>>

\* lines 241-254: the replacement audio is opened, looped and trimmed
process_video_audio(r) ==
    /\ pc[r] = "pv_branch"
    /\ ~TakesSilentPath(pv[r].audio_file)
    /\ LET p == pv[r].audio_file IN
       IF ~Exists(fs, p)
       THEN /\ pv' = [pv EXCEPT ![r] = [@ EXCEPT !.branch = "exc",
                                                 !.ret = "False"]]
            /\ pc' = [pc EXCEPT ![r] = "pe_check"]
       ELSE /\ pv' = [pv EXCEPT ![r] =
                        [@ EXCEPT !.handles = @ \cup {"audio"},
                                  !.opened = @ \cup {"audio"},
                                  !.d = fs[p].dur,
                                  !.loops = LoopsEvaluated(pv[r].D, fs[p].dur),
                                  !.track = ReplacementTrack(pv[r].D, fs[p].dur)]]
            /\ pc' = [pc EXCEPT ![r] = "pv_write"]
    /\ UNCHANGED <<fs, req, loc, dl, resp, Others>>

\* What write_videofile puts at output_path on the mux path
MuxOutput(r, D, track, whole) ==
    MediaFile(r, "video", D, "song", track.duration, whole)

\* lines 256-267: the final video is written and the clips closed
process_video_write(r) ==
    /\ pc[r] = "pv_write"
    /\ \E out \in {"raise", "truncated", "ok"} :
         /\ fs' = IF out = "raise" THEN fs
                  ELSE Write(fs, loc[r].output_path,
                             MuxOutput(r, pv[r].D, pv[r].track, out = "ok"))
         /\ IF out = "ok"
            THEN /\ pv' = [pv EXCEPT ![r] =
                             [@ EXCEPT !.branch = "mux",
                                       !.wrote = MuxOutput(r, pv[r].D,
                                                           pv[r].track, TRUE),
                                       !.handles =
                                           CloseAfterMux(@, pv[r].track)]]
                 /\ pc' = [pc EXCEPT ![r] = "pv_remove"]
            ELSE /\ pv' = [pv EXCEPT ![r] = [@ EXCEPT !.branch = "exc",
                                                      !.ret = "False"]]
                 /\ pc' = [pc EXCEPT ![r] = "pe_check"]
    /\ UNCHANGED <<req, loc, dl, resp, Others>>

\* process_video without lines 269-270
RemoveAudio_Skipped(f, audio_file) == f

\* lines 269-270
RemoveAudio(f, audio_file) ==
    IF Exists(f, audio_file) THEN Remove(f, audio_file) ELSE f

\* lines 269-274: the downloaded audio is deleted, the video closed
process_video_finish(r) ==
    /\ pc[r] = "pv_remove"
    /\ fs' = RemoveAudio(fs, pv[r].audio_file)
    /\ pv' = [pv EXCEPT ![r] = [@ EXCEPT !.handles = CloseVideo(@),
                                         !.ret = "True"]]
    /\ pc' = [pc EXCEPT ![r] = "pe_check"]
    /\ UNCHANGED <<req, loc, dl, resp, Others>>

\* lines 381-394
ProcessResponse(f, success, output_path) ==
    IF success /\ Exists(f, output_path)
    THEN Response(200, FALSE, TRUE, output_path, f[output_path])
    ELSE ErrorResponse(500)

process_endpoint_check(r) ==
    /\ pc[r] = "pe_check"
    /\ resp' = [resp EXCEPT ![r] =
                  ProcessResponse(fs, pv[r].ret = "True", loc[r].output_path)]
    /\ pc' = [pc EXCEPT ![r] = "pe_finally"]
    /\ UNCHANGED <<fs, req, loc, pv, dl, Others>>

\* lines 401-406
Cleanup(f, input_path) ==
    IF input_path # NoPath /\ Exists(f, input_path)
    THEN Remove(f, input_path) ELSE f

\* the finally clause runs, then the response leaves
process_endpoint_finally(r) ==
    /\ pc[r] = "pe_finally"
    /\ fs' = Cleanup(fs, loc[r].input_path)
    /\ pc' = [pc EXCEPT ![r] = "done"]
    /\ UNCHANGED <<req, loc, pv, dl, resp, Others>>

NextProcess ==
    \/ Tick
    \/ \E r \in Reqs : process_endpoint_start(r)
    \/ \E r \in Reqs : process_endpoint_fetch(r)
    \/ \E r \in Reqs : process_video_open(r)
    \/ \E r \in Reqs : process_video_song(r)
    \/ \E r \in Reqs : process_video_silent(r)
    \/ \E r \in Reqs : process_video_audio(r)
    \/ \E r \in Reqs : process_video_write(r)
    \/ \E r \in Reqs : process_video_finish(r)
    \/ \E r \in Reqs : process_endpoint_check(r)
    \/ \E r \in Reqs : process_endpoint_finally(r)

\* One /process-video request, every duration and every ranking reply
InitVideo ==
    InitWith([r \in Reqs |-> IF r = "r1" THEN {"process"} ELSE {}],
             Durations, AllReplies, {"", "key"})

SpecVideo == InitVideo /\ [][NextProcess]_vars

\* Two /process-video requests side by side
InitServer ==
    InitWith([r \in Reqs |-> IF r \in {"r1", "r2"} THEN {"process"} ELSE {}],
             {1, 2}, {NoReply}, {""})

SpecServer == InitServer /\ [][NextProcess]_vars

---------------------------------------------------------------------------
(* download_youtube_video_via_api, lines 18-90, its fallback               *)
(* download_youtube_video_ytdlp, lines 93-139, and their caller            *)
(* download_endpoint, lines 303-345                                        *)

\* A reply of the convenience API to line 42:
\*   exc: requests.post or response.json() raised; code: the status code;
\*   status, url, picker: the fields of the JSON reply, "" a missing url.
ApiReply(exc, code, status, url, picker) ==
    [exc |-> exc, code |-> code, status |-> status, url |-> url,
     picker |-> picker]

ApiReplies ==
    { ApiReply(TRUE, 0, "", "", <<>>),
      ApiReply(FALSE, 429, "error", "", <<>>),
      ApiReply(FALSE, 200, "error", "", <<>>),
      ApiReply(FALSE, 200, "redirect", "cdn", <<>>),
      ApiReply(FALSE, 200, "stream", "cdn", <<>>),
      ApiReply(FALSE, 200, "stream", "", <<>>),
      ApiReply(FALSE, 200, "picker", "", <<>>),
      ApiReply(FALSE, 200, "picker", "", <<"">>),
      ApiReply(FALSE, 200, "picker", "", <<"cdn", "cdn2">>) }

\* lines 53-61
DownloadUrl(data) ==
    IF data.status \in {"redirect", "stream"} THEN data.url
    ELSE IF data.status = "picker" /\ data.picker # <<>> THEN data.picker[1]
    ELSE ""

\* What lines 42-66 do with the reply: "fallback" (lines 66 and 90),
\* "none" (line 47) or "download" (line 70)
AfterApiReply(reply) ==
    IF reply.exc THEN "fallback"
    ELSE IF reply.code # 200 THEN "none"
    ELSE IF DownloadUrl(reply) = "" THEN "fallback"
    ELSE "download"

\* The failure case the reply is, in the words of the specification
FailureCase(reply) ==
    IF reply.exc THEN "exception"
    ELSE IF reply.code # 200 THEN "non200"
    ELSE IF DownloadUrl(reply) = "" THEN "nourl"
    ELSE ""

\* an output stem that does not carry the timestamp
OutputBase_Fixed(ts) == VideoBase(0)

\* line 319
OutputBase(ts) == VideoBase(ts)

\* lines 308-319
download_endpoint_start(r) ==
    /\ pc[r] = "idle"
    /\ "download" \in scn.kinds[r]
    /\ \E body \in Bodies :
         /\ req' = [req EXCEPT ![r] = [@ EXCEPT !.kind = "download",
                                                !.body = body]]
         /\ IF ValidateBody(body) # 0
            THEN /\ resp' = [resp EXCEPT ![r] = ErrorResponse(ValidateBody(body))]
                 /\ pc' = [pc EXCEPT ![r] = "done"]
                 /\ loc' = loc
            ELSE /\ loc' = [loc EXCEPT ![r] =
                              [@ EXCEPT !.has_ts = TRUE,
                                        !.timestamp = clock,
                                        !.output_path = OutputBase(clock)]]
                 /\ pc' = [pc EXCEPT ![r] = "api_post"]
                 /\ resp' = resp
    /\ UNCHANGED <<fs, pv, dl, Others>>

\* lines 25-66: the API is asked for a download link
api_request(r) ==
    /\ pc[r] = "api_post"
    /\ \E reply \in ApiReplies :
         LET next == AfterApiReply(reply) IN
         /\ dl' = [dl EXCEPT ![r] =
                     [@ EXCEPT !.api = "asked",
                               !.fail = FailureCase(reply),
                               !.download_url = DownloadUrl(reply),
                               !.returned = (next = "none")]]
         /\ pc' = [pc EXCEPT ![r] =
                     CASE next = "fallback" -> "ytdlp"
                       [] next = "none" -> "de_check"
                       [] OTHER -> "api_get"]
    /\ UNCHANGED <<fs, req, loc, pv, resp, Others>>

\* line 73
FinalPath(output_path) ==
    IF EndsWith(output_path, "mp4") THEN output_path
    ELSE AppendExt(output_path, "mp4")

\* lines 68-90: the link is streamed to final_path.  "raise": the GET or
\* raise_for_status raises; "partial": the stream breaks after the file was
\* opened; "ok": the whole file is written.  An exception goes to the
\* fallback (line 90).
api_download(r) ==
    /\ pc[r] = "api_get"
    /\ \E out \in {"raise", "partial", "ok"}, dur \in scn.durs :
         LET final_path == FinalPath(loc[r].output_path)
             c == MediaFile(r, "video", dur, "orig", dur, out = "ok")
             fs1 == IF out = "raise" THEN fs ELSE Write(fs, final_path, c) IN
         /\ fs' = fs1
         /\ IF out = "ok"
            THEN /\ dl' = [dl EXCEPT ![r] =
                             [@ EXCEPT !.api_ok = Exists(fs1, final_path),
                                       !.returned = TRUE,
                                       !.wrote_mp4 = c,
                                       !.ret = IF Exists(fs1, final_path)
                                               THEN final_path ELSE NoPath]]
                 /\ pc' = [pc EXCEPT ![r] = "de_check"]
            ELSE /\ dl' = [dl EXCEPT ![r] =
                             [@ EXCEPT !.fail = "exception",
                                       !.wrote_mp4 =
                                           IF out = "partial" THEN c ELSE @]]
                 /\ pc' = [pc EXCEPT ![r] = "ytdlp"]
    /\ UNCHANGED <<req, loc, pv, resp, Others>>

\* lines 120-133: the first of the possible paths that exists
ProbePaths(f, output_path) ==
    LET possible_paths == <<output_path, AppendExt(output_path, "mp4"),
                            AppendExt(ReplaceExt(output_path, "mp4"), "mp4")>>
        found == {i \in 1 .. 3 : Exists(f, possible_paths[i])} IN
    IF found = {} THEN NoPath
    ELSE possible_paths[CHOOSE i \in found : \A j \in found : i <= j]

\* lines 93-139, download_youtube_video_ytdlp.  "raise": yt-dlp (or its
\* import) raises; "nofile": it returns having written nothing; "plain": it
\* wrote output_path as given; "mp4": it wrote output_path.mp4.
download_youtube_video_ytdlp(r) ==
    /\ pc[r] = "ytdlp"
    /\ \E out \in {"raise", "nofile", "plain", "mp4"}, dur \in scn.durs :
         LET output_path == loc[r].output_path
             c == MediaFile(r, "video", dur, "orig", dur, TRUE)
             fs1 == CASE out = "plain" -> Write(fs, output_path, c)
                      [] out = "mp4" -> Write(fs, AppendExt(output_path, "mp4"), c)
                      [] OTHER -> fs
             found == IF out = "raise" THEN NoPath
                      ELSE ProbePaths(fs1, output_path) IN
         /\ fs' = fs1
         /\ dl' = [dl EXCEPT ![r] =
                     [@ EXCEPT !.fallbacks = @ + 1,
                               !.fallback_ret = found,
                               !.returned = TRUE,
                               !.wrote_plain = IF out = "plain" THEN c ELSE @,
                               !.wrote_mp4 = IF out = "mp4" THEN c ELSE @,
                               !.ret = found]]
         /\ pc' = [pc EXCEPT ![r] = "de_check"]
    /\ UNCHANGED <<req, loc, pv, resp, Others>>

\* lines 324-339
DownloadResponse(f, downloaded_path) ==
    IF downloaded_path # NoPath /\ Exists(f, downloaded_path)
    THEN Response(200, FALSE, TRUE, downloaded_path, f[downloaded_path])
    ELSE ErrorResponse(500)

download_endpoint_check(r) ==
    /\ pc[r] = "de_check"
    /\ loc' = [loc EXCEPT ![r] = [@ EXCEPT !.downloaded_path = dl[r].ret]]
    /\ resp' = [resp EXCEPT ![r] = DownloadResponse(fs, dl[r].ret)]
    /\ pc' = [pc EXCEPT ![r] = "done"]
    /\ UNCHANGED <<fs, req, pv, dl, Others>>

---------------------------------------------------------------------------
(* get_file_endpoint, lines 409-426 *)

\* line 413
FilePath(filename) == filename

\* The names a client may ask for: those of the files there are, the names
\* a /download may have answered, and one no handler ever writes
FileNames(f) ==
    (DOMAIN f)
    \cup {AppendExt(VideoBase(t), "mp4") : t \in 0 .. MaxTime}
    \cup {<<"nosuch", 0, <<>>>>}

\* lines 415-426
FileResponse(f, filename) ==
    IF Exists(f, FilePath(filename))
    THEN Response(200, FALSE, FALSE, filename, f[FilePath(filename)])
    ELSE ErrorResponse(404)

get_file_endpoint(r) ==
    /\ pc[r] = "idle"
    /\ "getfile" \in scn.kinds[r]
    /\ \E filename \in FileNames(fs) :
         /\ req' = [req EXCEPT ![r] =
                      [@ EXCEPT !.kind = "getfile",
                                !.name = filename,
                                !.after = {o \in Reqs : pc[o] = "done"},
                                !.existed = filename \in DOMAIN fs]]
         /\ resp' = [resp EXCEPT ![r] = FileResponse(fs, filename)]
    /\ pc' = [pc EXCEPT ![r] = "done"]
    /\ UNCHANGED <<fs, loc, pv, dl, Others>>

---------------------------------------------------------------------------
(* The whole service *)

Next ==
    \/ Tick
    \/ \E r \in Reqs : process_endpoint_start(r)
    \/ \E r \in Reqs : process_endpoint_fetch(r)
    \/ \E r \in Reqs : process_video_open(r)
    \/ \E r \in Reqs : process_video_song(r)
    \/ \E r \in Reqs : process_video_silent(r)
    \/ \E r \in Reqs : process_video_audio(r)
    \/ \E r \in Reqs : process_video_write(r)
    \/ \E r \in Reqs : process_video_finish(r)
    \/ \E r \in Reqs : process_endpoint_check(r)
    \/ \E r \in Reqs : process_endpoint_finally(r)
    \/ \E r \in Reqs : download_endpoint_start(r)
    \/ \E r \in Reqs : api_request(r)
    \/ \E r \in Reqs : api_download(r)
    \/ \E r \in Reqs : download_youtube_video_ytdlp(r)
    \/ \E r \in Reqs : download_endpoint_check(r)
    \/ \E r \in Reqs : get_file_endpoint(r)

\* A /download request, a request that is a /download or a /process-video,
\* and a /get-file request, in any order and side by side
Init ==
    InitWith([r \in Reqs |-> CASE r = "r1" -> {"download"}
                               [] r = "r2" -> {"download", "process"}
                               [] OTHER -> {"getfile"}],
             {1}, {NoReply}, {""})

Spec == Init /\ [][Next]_vars

---------------------------------------------------------------------------
(* Properties of process_video *)

Returned_pv == {"pe_check", "pe_finally", "done"}

AudioOpened(r) == "audio" \in pv[r].opened

VideoOpened(r) == "video" \in pv[r].opened

\* C1: when the video is longer than the fetched track (D > d > 0) the
\* replacement track is made of exactly floor(D/d)+1 copies, copy i starting
\* at i*d, one after the other without overlap, which together span at least
\* D; after the trim to [0, D] the track lasts D, and so does the audio of
\* the written output.
C1_LoopedTrackCoversVideo ==
    \A r \in Reqs :
        (AudioOpened(r) /\ pv[r].d > 0 /\ pv[r].D > pv[r].d) =>
            LET t == pv[r].track
                n == Len(t.starts) IN
            /\ n = (pv[r].D \div pv[r].d) + 1
            /\ pv[r].loops = n
            /\ \A i \in 1 .. n : t.starts[i] = (i - 1) * pv[r].d
            /\ \A i \in 1 .. n - 1 : t.starts[i + 1] = t.starts[i] + t.clip
            /\ t.clip = pv[r].d
            /\ n * pv[r].d >= pv[r].D
            /\ t.duration = pv[r].D
            /\ (pv[r].branch = "mux" => pv[r].wrote.adur = pv[r].D)

\* C1's case: the 130 s video with the 47 s track has been muxed from 3
\* copies
C1_Witness ==
    \E r \in Reqs :
        /\ pv[r].branch = "mux"
        /\ pv[r].D = 130
        /\ pv[r].d = 47
        /\ pv[r].track.starts = <<0, 47, 94>>
        /\ pv[r].wrote.adur = 130

\* C10: when the track is at least as long as the video (D <= d, D = d
\* included) the loop count is not computed, the track is the one copy
\* starting at 0, and the trim makes it last D; on every run that attaches a
\* track the audio of the output lasts as long as the video, D.
C10_NoLoopWhenTrackCovers ==
    \A r \in Reqs :
        /\ (AudioOpened(r) /\ pv[r].D <= pv[r].d) =>
              /\ pv[r].loops = 0
              /\ pv[r].track.starts = <<0>>
              /\ ~pv[r].track.composite
              /\ pv[r].track.duration = pv[r].D
        /\ (pv[r].branch = "mux" =>
              /\ pv[r].wrote.audio = "song"
              /\ pv[r].wrote.adur = pv[r].D
              /\ pv[r].wrote.dur = pv[r].D)

\* C10's case: the boundary D = d has been muxed
C10_Witness ==
    \E r \in Reqs :
        /\ pv[r].branch = "mux"
        /\ pv[r].D = pv[r].d
        /\ pv[r].D > 1
        /\ pv[r].wrote.adur = pv[r].D

\* C2 (as stated): when process_video has returned, on whichever path, no
\* reader it opened is still open.
C2_AllHandlesReleased ==
    \A r \in Reqs : pv[r].ret # "" => pv[r].handles = {}

\* The URL the claim C8 expects of a reply
UsableReply(rep) ==
    /\ YOUTUBE_API_KEY # ""
    /\ ~rep.exc /\ rep.json /\ rep.dict /\ rep.hasItems
    /\ Len(rep.items) > 0
    /\ rep.items[1].hasId

\* C8: get_trending_song never raises and returns one URL: the watch URL of
\* the first item when a credential is configured and the reply parses to a
\* non-empty item list whose first item has an id; the default URL in every
\* other case.
C8_TrendingSongNeverRaises ==
    \A r \in Reqs :
        /\ pv[r].called # "raised"
        /\ pv[r].called = "returned" =>
              /\ pv[r].song_url # NoUrl
              /\ pv[r].song_url =
                    IF UsableReply(pv[r].reply)
                    THEN WatchUrl(pv[r].reply.items[1].id)
                    ELSE DefaultSong

\* C8's case: with a credential, a reply whose first item has no id was
\* answered by the default URL
C8_Witness ==
    \E r \in Reqs :
        /\ YOUTUBE_API_KEY # ""
        /\ pv[r].called = "returned"
        /\ pv[r].reply.items # <<>>
        /\ ~pv[r].reply.items[1].hasId
        /\ pv[r].song_url = DefaultSong

---------------------------------------------------------------------------
(* Properties of concurrent /process-video requests *)

Stamped(r) == loc[r].has_ts /\ req[r].kind = "process"

Processing(r) == pc[r] \in {"pv_open", "pv_song", "pv_branch", "pv_write", "pv_remove"}

\* r's input file is gone or is another request's while r still works on it
InputClobbered(r) ==
    /\ Processing(r)
    /\ \/ ~Exists(fs, loc[r].input_path)
       \/ fs[loc[r].input_path].writer # r

\* r answers success naming an output another request wrote
OutputClobbered(r) ==
    /\ req[r].kind = "process"
    /\ pc[r] \in {"pe_finally", "done"}
    /\ resp[r].success
    /\ resp[r].content.writer # r

SharesTimestamp(r) ==
    \E o \in Reqs \ {r} : Stamped(o) /\ loc[o].timestamp = loc[r].timestamp

C6_SameSecondSamePaths ==
    /\ \A a, b \in Reqs :
          (a # b /\ Stamped(a) /\ Stamped(b)) =>
              /\ (loc[a].timestamp = loc[b].timestamp) <=>
                    (loc[a].input_path = loc[b].input_path)
              /\ (loc[a].output_path # NoPath /\ loc[b].output_path # NoPath) =>
                    ((loc[a].timestamp = loc[b].timestamp) <=>
                        (loc[a].output_path = loc[b].output_path))
    /\ \A r \in Reqs :
          (InputClobbered(r) \/ OutputClobbered(r)) => SharesTimestamp(r)

\* C6's case: of two requests of the same second, one has answered success
\* with an output the other wrote, and its cleanup has removed the input the
\* other is still processing
C6_Witness ==
    \E a, b \in Reqs :
        /\ a # b
        /\ Stamped(a) /\ Stamped(b)
        /\ loc[a].timestamp = loc[b].timestamp
        /\ pc[a] = "done"
        /\ OutputClobbered(a)
        /\ resp[a].content.writer = b
        /\ InputClobbered(b)
        /\ ~Exists(fs, loc[b].input_path)

\* C9: a /process-video request that no other request shares its timestamp
\* with and that answers success with a muxed track leaves one file of its
\* own in the scratch directory, the output: its input file is deleted
\* before the response leaves, and the audio file it downloaded is deleted.
C9_OnlyOutputLeft ==
    \A r \in Reqs :
        (/\ pc[r] = "done"
         /\ req[r].kind = "process"
         /\ resp[r].success
         /\ pv[r].branch = "mux"
         /\ ~SharesTimestamp(r)) =>
            /\ ~Exists(fs, loc[r].input_path)
            /\ Exists(fs, loc[r].output_path)
            /\ fs[loc[r].output_path].writer = r
            /\ \A p \in DOMAIN fs : fs[p].writer = r => p = loc[r].output_path

\* C9's case: such a request is done while another one, of another second,
\* has run too
C9_Witness ==
    \E r \in Reqs :
        /\ pc[r] = "done"
        /\ resp[r].success
        /\ pv[r].branch = "mux"
        /\ ~SharesTimestamp(r)
        /\ \E o \in Reqs \ {r} : Stamped(o) /\ pc[o] = "done"
        /\ DOMAIN fs = {loc[r].output_path}

---------------------------------------------------------------------------
(* Properties of /download and /get-file *)

IsDownload(r) == req[r].kind = "download"

\* C3 (as stated): in each failure case of the API path (a non-200 reply, a
\* reply without usable download URL, an exception) the fallback has been
\* called exactly once and its result is the one returned; the fallback is
\* never called twice, and never after the API path has succeeded.
C3_FallbackOnEveryFailure ==
    \A r \in Reqs :
        (IsDownload(r) /\ dl[r].returned) =>
            /\ (dl[r].fail \in {"non200", "nourl", "exception"} =>
                  /\ dl[r].fallbacks = 1
                  /\ dl[r].ret = dl[r].fallback_ret)
            /\ dl[r].fallbacks <= 1
            /\ (dl[r].api_ok => dl[r].fallbacks = 0)

WroteNothing(r) ==
    /\ dl[r].wrote_plain = NoContent
    /\ dl[r].wrote_mp4 = NoContent
    /\ \A p \in DOMAIN fs : fs[p].writer # r

\* C4 (as stated): a /download whose JSON body has no videoUrl, or an empty
\* one, is answered 400 with an error field, no download having been tried
\* and no file written; a well-formed body whose URL neither strategy
\* fetched is answered 500 with an error field; success is answered only
\* when the returned path is in the scratch directory.
C4_DownloadStatusCodes ==
    \A r \in Reqs :
        (IsDownload(r) /\ pc[r] = "done") =>
            /\ (req[r].body.json /\ req[r].body.videoUrl \in {"missing", ""}) =>
                  /\ resp[r].status = 400
                  /\ resp[r].error
                  /\ dl[r].api = ""
                  /\ dl[r].fallbacks = 0
                  /\ WroteNothing(r)
            /\ (req[r].body.videoUrl \in Urls /\ dl[r].ret = NoPath) =>
                  /\ resp[r].status = 500
                  /\ resp[r].error
            /\ resp[r].success =>
                  /\ resp[r].status = 200
                  /\ loc[r].downloaded_path = resp[r].filename
                  /\ resp[r].filename[1] = "video"
                  /\ Exists(fs, resp[r].filename)

\* What download d itself last wrote to path p
WroteAt(d, p) ==
    IF p = loc[d].output_path THEN dl[d].wrote_plain ELSE dl[d].wrote_mp4

\* /download d answered success with the name that /get-file g, issued after
\* d's response, asked for
ServedAfter(g, d) ==
    /\ req[g].kind = "getfile"
    /\ pc[g] = "done"
    /\ d \in req[g].after
    /\ IsDownload(d)
    /\ resp[d].success
    /\ resp[d].filename = req[g].name

\* C7 (as stated): a /get-file/N issued after a /download answered success
\* with filename N returns 200 with exactly the content that download wrote
\* to N's path, whatever other requests completed in between; a name that
\* is not in the scratch directory is answered 404 with an error field.
C7_ServesWhatDownloadWrote ==
    \A g \in Reqs :
        /\ \A d \in Reqs :
              (ServedAfter(g, d) /\ WroteAt(d, req[g].name) # NoContent) =>
                  /\ resp[g].status = 200
                  /\ resp[g].content = WroteAt(d, req[g].name)
        /\ (req[g].kind = "getfile" /\ pc[g] = "done" /\ ~req[g].existed) =>
              /\ resp[g].status = 404
              /\ resp[g].error

\* C7 (amended): such a /get-file/N returns 200 with the content last
\* written to N's path, and the writer of that content is a /download whose
\* timestamp is the second of the download that answered N: the content is
\* the one that download wrote unless another /download of the same second
\* wrote the path after it.  A name that is not in the scratch directory is
\* answered 404 with an error field, and only such a name is.
C7_ServesLatestWriteOfThatSecond ==
    \A g \in Reqs :
        /\ \A d \in Reqs :
              ServedAfter(g, d) =>
                  LET w == resp[g].content.writer IN
                  /\ resp[g].status = 200
                  /\ ~resp[g].error
                  /\ resp[g].filename = resp[d].filename
                  /\ w \in Reqs
                  /\ IsDownload(w)
                  /\ loc[w].timestamp = loc[d].timestamp
                  /\ (w = d => resp[g].content = WroteAt(d, req[g].name))
        /\ (req[g].kind = "getfile" /\ pc[g] = "done") =>
              /\ resp[g].status = IF req[g].existed THEN 200 ELSE 404
              /\ resp[g].error = ~req[g].existed

\* C7's case: the file of a download was served with the content the
\* download wrote, after another request, of another second, had completed
\* too
C7_Witness ==
    \E g, d, o \in Reqs :
        /\ ServedAfter(g, d)
        /\ o \notin {g, d}
        /\ o \in req[g].after
        /\ resp[o].success
        /\ loc[o].timestamp # loc[d].timestamp
        /\ resp[g].status = 200
        /\ resp[g].content = WroteAt(d, req[g].name)
        /\ resp[g].content.writer = d

====
